---- MODULE Spec2Model ----
(***************************************************************************)
(* The cache decision engine of http-cache (HttpCache::run and the helpers *)
(* it calls), over a shared CacheManager and an origin server.             *)
(*                                                                         *)
(* A request is one call of HttpCache::run.  Its steps are the places at   *)
(* which the future suspends: storage delete / get / put and the adapter's *)
(* remote_fetch.  Everything the code does between two suspension points   *)
(* belongs to the step that follows the earlier one.                       *)
(***************************************************************************)
EXTENDS Integers, Sequences, FiniteSets, TLC

\* ------------------------------------------------------------------ bounds
\* Number of responses the origin hands out in one behaviour.  The origin
\* labels the body of its n-th response with n, so that the provenance of a
\* body is visible in the body itself.
MaxFetches == 2

\* ---------------------------------------------------------------- universe
Procs    == {1, 2}
Methods  == {"GET", "HEAD", "POST"}
URIs     == {"/"}
Modes    == {"Default", "NoStore", "Reload", "NoCache",
             "ForceCache", "OnlyIfCached", "IgnoreRules"}

None     == [tag |-> "none"]
Some(x)  == [tag |-> "some", val |-> x]

\* HitOrMiss, and the value of a header that is not there.
HIT       == "HIT"
MISS      == "MISS"
NoHeader  == "-"
\* A warning header value is <<warn-code, warn-text>>; <<>> when absent.
NoWarning == <<>>

\* What the origin may send.  A response with max-age=86400 is fresh until
\* the clock moves on (Tick) and stale afterwards; the others are stale from
\* the start.
CacheControls  == {"max-age=86400, public", "public, must-revalidate",
                   "no-store, max-age=0, public"}
OriginWarnings == {NoWarning, <<101, "Test">>, <<214, "Transformation applied">>}
OriginStatuses == {200, 201, 304, 404, 500}

\* The body of the origin's n-th response, the body of the synthesized 504
\* and the (empty) body of a response without content.
OriginBody(n)  == <<"origin", n>>
GatewayTimeout == <<"GatewayTimeout">>

\* ---------------------------------------------------------- response model
\* HttpResponse / Parts: status, body and the four headers the engine reads
\* or writes (cache-control, warning, x-cache, x-cache-lookup).
HttpResponse(status, body, cc, warning) ==
    [status |-> status, body |-> body, cc |-> cc, warning |-> warning,
     xcache |-> NoHeader, xlookup |-> NoHeader]

\* The header map of a response.
Headers(res) ==
    [cc |-> res.cc, warning |-> res.warning,
     xcache |-> res.xcache, xlookup |-> res.xlookup]

\* HttpResponse::warning_code: the leading three digits of the warning value.
warning_code(res) ==
    IF res.warning = NoWarning THEN None ELSE Some(res.warning[1])

\* HttpResponse::add_warning: inserts the warning header, replacing any value
\* that is there (warn-agent and warn-date are left out of the value).
add_warning(res, code, message) ==
    [res EXCEPT !.warning = <<code, message>>]

\* A remove_warning that removes nothing.
remove_warning_noop(res) == res

\* HttpResponse::remove_warning
remove_warning(res) == [res EXCEPT !.warning = NoWarning]

\* HttpResponse::update_headers: every header of parts is inserted, replacing
\* the value the response has under that name.
update_headers(res, parts) ==
    [res EXCEPT
       !.cc      = IF parts.cc      = NoHeader  THEN @ ELSE parts.cc,
       !.warning = IF parts.warning = NoWarning THEN @ ELSE parts.warning,
       !.xcache  = IF parts.xcache  = NoHeader  THEN @ ELSE parts.xcache,
       !.xlookup = IF parts.xlookup = NoHeader  THEN @ ELSE parts.xlookup]

\* A must_revalidate that never finds the directive.
must_revalidate_never(res) == FALSE

\* HttpResponse::must_revalidate
must_revalidate(res) == res.cc = "public, must-revalidate"

\* HttpResponse::cache_status
cache_status(res, hit_or_miss) == [res EXCEPT !.xcache = hit_or_miss]

\* HttpResponse::cache_lookup_status
cache_lookup_status(res, hit_or_miss) == [res EXCEPT !.xlookup = hit_or_miss]

\* ------------------------------------------------------- policy evaluator
\* CachePolicy (http-cache-semantics) is an external collaborator.  A policy
\* remembers the headers of the response it was made from, whether that
\* response may be stored and how much of its freshness lifetime is left
\* (in units of the Tick action).
NoStoreDirective(cc) == cc = "no-store, max-age=0, public"
MaxAge(cc)           == IF cc = "max-age=86400, public" THEN 1 ELSE 0

PolicyOf(headers) ==
    [storable |-> ~NoStoreDirective(headers.cc),
     ttl      |-> MaxAge(headers.cc),
     headers  |-> headers]

\* Middleware::policy and Middleware::policy_with_options
policy(res) == PolicyOf(Headers(res))

\* CachePolicy::is_storable
is_storable(pol) == pol.storable

\* The headers a policy hands back for its stored response: the remembered
\* ones without 1xx warnings.
PolicyParts(pol) ==
    [pol.headers EXCEPT
       !.warning = IF @ # NoWarning /\ @[1] \in 100..199 THEN NoWarning ELSE @]

\* CachePolicy::before_request(parts, now)
before_request(pol) ==
    IF pol.ttl > 0 THEN [tag |-> "Fresh", parts |-> PolicyParts(pol)]
                   ELSE [tag |-> "Stale"]

\* CachePolicy::after_response(req_parts, cond_parts, now) for a 304: the
\* headers of the 304 are laid over the remembered ones and the freshness
\* lifetime starts again.
after_response(pol, cond_parts) ==
    LET merged == [cc      |-> IF cond_parts.cc = NoHeader
                                 THEN pol.headers.cc ELSE cond_parts.cc,
                   warning |-> IF cond_parts.warning = NoWarning
                                 THEN pol.headers.warning ELSE cond_parts.warning,
                   xcache  |-> pol.headers.xcache,
                   xlookup |-> pol.headers.xlookup]
        new_policy == PolicyOf(merged)
    IN  [policy |-> new_policy, parts |-> PolicyParts(new_policy)]

\* ------------------------------------------------------ options and keys
\* request::Parts of a request, as far as keys and modes depend on it.
Parts(middleware) == [method |-> middleware.method, uri |-> middleware.uri]

\* The closures a caller may configure.  cache_key: the key of the crate's
\* documentation, method and uri with a suffix.  cache_mode_fn: a mode per
\* method.  cache_bust: the GET entry of the requested uri.
CacheKeyFn(parts)       == <<parts.method, parts.uri, "test">>
CacheModeFn(parts)      == IF parts.method = "GET" THEN "ForceCache" ELSE "NoStore"
CacheBustFn(parts, key) == << <<"GET", parts.uri>> >>

\* HttpCacheOptions::default; a closure option is TRUE when it is Some.
DefaultOptions ==
    [cache_status_headers |-> TRUE, cache_key |-> FALSE,
     cache_mode_fn |-> FALSE, cache_bust |-> FALSE]

\* HttpCache values: a static mode and the options.
Engine(mode, options) == [mode |-> mode, options |-> options]

\* Middleware values: no_cache and validators record that force_no_cache and
\* update_headers were applied to the outgoing request.
Middleware(method, uri, override) ==
    [method |-> method, uri |-> uri, overridden_cache_mode |-> override,
     no_cache |-> FALSE, validators |-> FALSE]

\* The calls of run: every mode with GET and with POST under the default
\* options; HEAD under IgnoreRules; two modes without the status headers;
\* Default with one closure option set (every method with cache_bust); and
\* the mode overridden by the request.
Calls ==
    {[engine |-> Engine(m, DefaultOptions), middleware |-> Middleware(h, u, None)]
       : m \in Modes, h \in {"GET", "POST"}, u \in URIs}
    \cup {[engine |-> Engine(m, DefaultOptions),
           middleware |-> Middleware("HEAD", u, None)]
       : m \in {"IgnoreRules"}, u \in URIs}
    \cup {[engine |-> Engine(m, [DefaultOptions EXCEPT !.cache_status_headers = FALSE]),
           middleware |-> Middleware("GET", u, None)]
       : m \in {"OnlyIfCached", "NoStore"}, u \in URIs}
    \cup {[engine |-> Engine("Default", [DefaultOptions EXCEPT !.cache_key = TRUE]),
           middleware |-> Middleware(h, u, None)]
       : h \in {"GET", "POST"}, u \in URIs}
    \cup {[engine |-> Engine("Default", [DefaultOptions EXCEPT !.cache_bust = TRUE]),
           middleware |-> Middleware(h, u, None)]
       : h \in Methods, u \in URIs}
    \cup {[engine |-> Engine("Default", [DefaultOptions EXCEPT !.cache_mode_fn = TRUE]),
           middleware |-> Middleware(h, u, None)]
       : h \in {"GET", "POST"}, u \in URIs}
    \cup {[engine |-> Engine("ForceCache", DefaultOptions),
           middleware |-> Middleware("GET", u, Some("Reload"))]
       : u \in URIs}

\* The calls of run made while another call is in progress: Default with
\* GET and with POST, and Default with cache_bust and GET.
ConcurrentCalls ==
    {[engine |-> Engine("Default", DefaultOptions),
      middleware |-> Middleware(h, u, None)] : h \in {"GET", "POST"}, u \in URIs}
    \cup {[engine |-> Engine("Default", [DefaultOptions EXCEPT !.cache_bust = TRUE]),
           middleware |-> Middleware("GET", u, None)] : u \in URIs}

Keys == (Methods \X URIs) \cup {CacheKeyFn(pt) : pt \in [method : Methods, uri : URIs]}

\* A create_cache_key that forgets override_method.
create_cache_key_no_override(options, parts, override_method) ==
    IF options.cache_key THEN CacheKeyFn(parts) ELSE <<parts.method, parts.uri>>

\* A create_cache_key that lets override_method win over cache_key.
create_cache_key_override_first(options, parts, override_method) ==
    IF override_method # None
      THEN <<override_method.val, parts.uri>>
      ELSE IF options.cache_key THEN CacheKeyFn(parts)
                                ELSE <<parts.method, parts.uri>>

\* HttpCacheOptions::create_cache_key
create_cache_key(options, parts, override_method) ==
    IF options.cache_key
      THEN CacheKeyFn(parts)
      ELSE <<IF override_method = None THEN parts.method ELSE override_method.val,
             parts.uri>>

\* Middleware::is_method_get_head
is_method_get_head(middleware) == middleware.method \in {"GET", "HEAD"}

\* A cache_mode that does not ask the request for its override.
cache_mode_without_override(engine, middleware) ==
    IF engine.options.cache_mode_fn
      THEN CacheModeFn(Parts(middleware))
      ELSE engine.mode

\* HttpCache::cache_mode
cache_mode(engine, middleware) ==
    IF middleware.overridden_cache_mode # None
      THEN middleware.overridden_cache_mode.val
      ELSE IF engine.options.cache_mode_fn
             THEN CacheModeFn(Parts(middleware))
             ELSE engine.mode

\* A can_cache_request that forgets IgnoreRules.
can_cache_request_get_head(engine, middleware) ==
    /\ is_method_get_head(middleware)
    /\ cache_mode(engine, middleware) # "NoStore"

\* A can_cache_request that forgets the NoStore test.
can_cache_request_no_store(engine, middleware) ==
    \/ cache_mode(engine, middleware) = "IgnoreRules"
    \/ is_method_get_head(middleware)

\* HttpCache::can_cache_request
can_cache_request(engine, middleware) ==
    LET mode == cache_mode(engine, middleware)
    IN  \/ mode = "IgnoreRules"
        \/ is_method_get_head(middleware) /\ mode # "NoStore"

\* -------------------------------------------------------------------- state
VARIABLES
    store,      \* the CacheManager: key -> None | Some([res, policy])
    origin,     \* number of responses the origin has sent
    pc,         \* per request slot: the suspension point run() is at
    call,       \* per slot: [engine, middleware] of the run() in progress
    caller,     \* per slot: the call site a pending fetch or put returns to
    busting,    \* per slot: keys of cache_bust still to delete
    cached,     \* per slot: (cached_res, policy) held by conditional_fetch
    pending,    \* per slot: (res, policy) on its way to put, or res to return
    result,     \* per slot: what run() returned
    log,        \* per slot: the storage and network operations run() issued
    before,     \* per slot: the store at the moment run() was called
    env         \* the scenario: concurrent requests, storage faults

vars == <<store, origin, pc, call, caller, busting, cached, pending,
          result, log, before, env>>

EmptyStore == [k \in Keys |-> None]

Ok(res) == [tag |-> "ok", res |-> res]
Err(e)  == [tag |-> "err", err |-> e]

\* Result<()> / Result<T> of a storage operation: TRUE is Ok.
StorageOutcomes == IF env.storage_faults THEN {TRUE, FALSE} ELSE {TRUE}

\* Slots that take requests: one at a time unless the scenario is concurrent.
ActiveProcs == IF env.concurrent THEN Procs ELSE {1}

\* What Middleware::remote_fetch may come back with: an error, or the
\* origin's next response (none once the origin has sent MaxFetches).
OriginResponses(n) ==
    {HttpResponse(200, OriginBody(n), cc, NoWarning) : cc \in CacheControls}
    \cup {HttpResponse(200, OriginBody(n), cc, w)
       : cc \in {"max-age=86400, public"}, w \in OriginWarnings}
    \cup {HttpResponse(st, OriginBody(n), NoHeader, NoWarning)
       : st \in OriginStatuses \ {200, 304}}
    \cup {HttpResponse(304, <<>>, cc, NoWarning)
       : cc \in {NoHeader, "no-store, max-age=0, public"}}

\* The answers of the origin while calls overlap: a fresh and a stale 200,
\* a 201 and a 304.
ConcurrentResponses(n) ==
    {HttpResponse(200, OriginBody(n), cc, NoWarning)
       : cc \in {"max-age=86400, public", "public, must-revalidate"}}
    \cup {HttpResponse(201, OriginBody(n), NoHeader, NoWarning),
          HttpResponse(304, <<>>, NoHeader, NoWarning)}

RemoteOutcomes ==
    {Err("remote_fetch")}
    \cup (IF origin < MaxFetches
            THEN {Ok(r) : r \in IF env.concurrent
                                  THEN ConcurrentResponses(origin + 1)
                                  ELSE OriginResponses(origin + 1)}
            ELSE {})

\* The manager an engine is constructed over: empty, or, for the engine two
\* callers share, possibly holding under GET:/ the stale entry that an
\* earlier GET answered 200 with must-revalidate has written through.
EarlierEntry ==
    LET res == cache_lookup_status(cache_status(
                 HttpResponse(200, OriginBody(0), "public, must-revalidate",
                              NoWarning), MISS), MISS)
    IN  [res |-> res, policy |-> policy(res)]

InitialStores(e) ==
    IF e.concurrent
      THEN {EmptyStore, [EmptyStore EXCEPT ![<<"GET", "/">>] = Some(EarlierEntry)]}
      ELSE {EmptyStore}

InitWith(e) ==
    /\ store   \in InitialStores(e)
    /\ origin  = 0
    /\ pc      = [p \in Procs |-> "idle"]
    /\ call    = [p \in Procs |-> None]
    /\ caller  = [p \in Procs |-> "-"]
    /\ busting = [p \in Procs |-> <<>>]
    /\ cached  = [p \in Procs |-> None]
    /\ pending = [p \in Procs |-> None]
    /\ result  = [p \in Procs |-> None]
    /\ log     = [p \in Procs |-> <<>>]
    /\ before  = [p \in Procs |-> EmptyStore]
    /\ env     = e

Init == InitWith([concurrent |-> FALSE, storage_faults |-> FALSE])

\* ------------------------------------------------------------ step helpers
Goto(p, label)     == pc' = [pc EXCEPT ![p] = label]
Logged(p, op, key) == log' = [log EXCEPT ![p] = Append(@, <<op, key>>)]

\* A storage operation in the log: <<op, key>>, with "err" behind it when the
\* CacheManager returned an error.
LoggedResult(p, op, key, ok) ==
    log' = [log EXCEPT ![p] =
              Append(@, IF ok THEN <<op, key>> ELSE <<op, key, "err">>)]

\* What the log keeps of a remote fetch in the place of a key: the status of
\* the response, nothing for an error.
Answer(out) == IF out.tag = "err" THEN <<>> ELSE <<out.res.status>>

\* run() returns r.
Returns(p, r) ==
    /\ result' = [result EXCEPT ![p] = r]
    /\ Goto(p, "done")

\* A cache_key made for the GET entry whatever the request's method.
cache_key_of_get(c) ==
    create_cache_key(c.engine.options, Parts(c.middleware), Some("GET"))

\* The key run() computes for the request (line 611), the same one
\* remote_fetch and conditional_fetch compute again for put.
cache_key(c) == create_cache_key(c.engine.options, Parts(c.middleware), None)

\* lines 715-718 of remote_fetch
tag_remote(engine, res) ==
    IF engine.options.cache_status_headers
      THEN cache_lookup_status(cache_status(res, MISS), MISS)
      ELSE res

\* An is_cacheable with the policy's verdict negated.
is_cacheable_negated_policy(engine, middleware, res, pol) ==
    \/ /\ is_method_get_head(middleware)
       /\ cache_mode(engine, middleware) # "NoStore"
       /\ res.status = 200
       /\ ~is_storable(pol)
    \/ cache_mode(engine, middleware) = "IgnoreRules" /\ res.status = 200

\* An is_cacheable whose IgnoreRules override forgets the status.
is_cacheable_any_status(engine, middleware, res, pol) ==
    \/ /\ is_method_get_head(middleware)
       /\ cache_mode(engine, middleware) # "NoStore"
       /\ res.status = 200
       /\ is_storable(pol)
    \/ cache_mode(engine, middleware) = "IgnoreRules"

\* An is_cacheable that forgets the NoStore test.
is_cacheable_no_store_ignored(engine, middleware, res, pol) ==
    \/ /\ is_method_get_head(middleware)
       /\ res.status = 200
       /\ is_storable(pol)
    \/ cache_mode(engine, middleware) = "IgnoreRules" /\ res.status = 200

\* An is_cacheable without the IgnoreRules override.
is_cacheable_without_override(engine, middleware, res, pol) ==
    /\ is_method_get_head(middleware)
    /\ cache_mode(engine, middleware) # "NoStore"
    /\ res.status = 200
    /\ is_storable(pol)

\* lines 723-731 of remote_fetch: whether the response is put.
is_cacheable(engine, middleware, res, pol) ==
    LET is_get_head == is_method_get_head(middleware)
        mode        == cache_mode(engine, middleware)
    IN  \/ /\ is_get_head
           /\ mode # "NoStore"
           /\ res.status = 200
           /\ is_storable(pol)
        \/ mode = "IgnoreRules" /\ res.status = 200

\* A call site that returns the response as remote_fetch tagged it.
back_in_run_as_fetched(engine, site, res) == res

\* What the call site of remote_fetch does with the response it gets back:
\* the NoCache arm of run (lines 651-655) tags the lookup, the others
\* return it as it is.
back_in_run(engine, site, res) ==
    IF site = "no_cache" /\ engine.options.cache_status_headers
      THEN cache_lookup_status(res, HIT)
      ELSE res

\* ------------------------------------------------------------------ actions
\* HttpCache::run, lines 606-622 up to its first suspension point: an engine
\* is handed a request.
run(p) ==
    /\ p \in ActiveProcs
    /\ pc[p] = "idle"
    /\ env.concurrent \/ \A q \in Procs : pc[q] = "idle"
    /\ \E c \in (IF env.concurrent THEN ConcurrentCalls ELSE Calls) :
         LET engine     == c.engine
             middleware == c.middleware
             bust == IF engine.options.cache_bust
                       THEN CacheBustFn(Parts(middleware), cache_key(c))
                       ELSE <<>>
         IN  /\ call'   = [call EXCEPT ![p] = c]
             /\ before' = [before EXCEPT ![p] = store]
             /\ log'    = [log EXCEPT ![p] = <<>>]
             /\ result' = [result EXCEPT ![p] = None]
             /\ IF ~can_cache_request(engine, middleware)
                  THEN /\ Goto(p, "remote_fetch")
                       /\ caller'  = [caller EXCEPT ![p] = "bypass"]
                       /\ busting' = [busting EXCEPT ![p] = <<>>]
                  ELSE /\ Goto(p, IF bust = <<>> THEN "get" ELSE "cache_bust")
                       /\ caller'  = [caller EXCEPT ![p] = "-"]
                       /\ busting' = [busting EXCEPT ![p] = bust]
    /\ UNCHANGED <<store, origin, cached, pending, env>>

\* A cache_bust delete that leaves the entry in the store.
cache_bust_delete_kept(p) ==
    /\ pc[p] = "cache_bust"
    /\ \E ok \in StorageOutcomes :
         /\ LoggedResult(p, "delete", Head(busting[p]), ok)
         /\ IF ok
           THEN /\ busting' = [busting EXCEPT ![p] = Tail(@)]
                /\ Goto(p, IF Tail(busting[p]) = <<>> THEN "get" ELSE "cache_bust")
                /\ UNCHANGED <<store, result>>
           ELSE /\ Returns(p, Err("delete"))
                /\ UNCHANGED <<store, busting>>
    /\ UNCHANGED <<origin, call, caller, cached, pending, before, env>>

\* run, line 620: manager.delete(key_to_cache_bust).await?
cache_bust_delete(p) ==
    /\ pc[p] = "cache_bust"
    /\ \E ok \in StorageOutcomes :
         /\ LoggedResult(p, "delete", Head(busting[p]), ok)
         /\ IF ok
           THEN /\ store'   = [store EXCEPT ![Head(busting[p])] = None]
                /\ busting' = [busting EXCEPT ![p] = Tail(@)]
                /\ Goto(p, IF Tail(busting[p]) = <<>> THEN "get" ELSE "cache_bust")
                /\ UNCHANGED result
           ELSE /\ Returns(p, Err("delete"))
                /\ UNCHANGED <<store, busting>>
    /\ UNCHANGED <<origin, call, caller, cached, pending, before, env>>

\* A looked_up that leaves the warning header alone.
looked_up_keeps_warning(engine, res) ==
    IF engine.options.cache_status_headers
      THEN cache_lookup_status(res, HIT) ELSE res

\* run, lines 625-643: the stored response as the mode arms see it.
looked_up(engine, res) ==
    LET tagged == IF engine.options.cache_status_headers
                    THEN cache_lookup_status(res, HIT) ELSE res
        code   == warning_code(tagged)
    IN  IF code # None /\ code.val \in 100..199
          THEN remove_warning(tagged) ELSE tagged

\* conditional_fetch, lines 765-772: the stored response is fresh.
serve_fresh(engine, cached_res, parts) ==
    LET merged == update_headers(cached_res, parts)
    IN  IF engine.options.cache_status_headers
          THEN cache_lookup_status(cache_status(merged, HIT), HIT)
          ELSE merged

\* run, lines 657-673: ForceCache, OnlyIfCached and IgnoreRules on a hit.
serve_forced(engine, res) ==
    LET warned == add_warning(res, 112, "Disconnected operation")
    IN  IF engine.options.cache_status_headers
          THEN cache_status(warned, HIT) ELSE warned

\* run, lines 678-693: OnlyIfCached on a miss.
gateway_timeout(engine) ==
    LET res == HttpResponse(504, GatewayTimeout, NoHeader, NoWarning)
    IN  IF engine.options.cache_status_headers
          THEN cache_lookup_status(cache_status(res, MISS), MISS)
          ELSE res

\* run, lines 624-697, with the part of conditional_fetch (lines 762-779)
\* that runs before its remote fetch: manager.get(cache_key).await? and the
\* branch on the mode.
manager_get(p) ==
    /\ pc[p] = "get"
    /\ \E ok \in StorageOutcomes, matches \in BOOLEAN :
         LET engine     == call[p].engine
             middleware == call[p].middleware
             mode       == cache_mode(engine, middleware)
             entry      == store[cache_key(call[p])]
             res        == looked_up(engine, entry.val.res)
             before_req == before_request(entry.val.policy)
             Fetch(site, mw) ==
                 /\ Goto(p, "remote_fetch")
                 /\ caller' = [caller EXCEPT ![p] = site]
                 /\ call'   = [call EXCEPT ![p].middleware = mw]
                 /\ UNCHANGED <<result, cached>>
             Serve(r) ==
                 /\ Returns(p, r)
                 /\ UNCHANGED <<caller, call, cached>>
         IN  /\ LoggedResult(p, "get", cache_key(call[p]), ok)
             /\ IF ~ok THEN Serve(Err("get"))
                ELSE IF entry # None THEN
                  CASE mode = "Default" ->
                         IF before_req.tag = "Fresh"
                           THEN Serve(Ok(serve_fresh(engine, res, before_req.parts)))
                           ELSE /\ Goto(p, "conditional_fetch")
                                /\ cached' = [cached EXCEPT ![p] =
                                     [res |-> res, policy |-> entry.val.policy]]
                                /\ call' = [call EXCEPT ![p].middleware.validators
                                                           = matches]
                                /\ UNCHANGED <<result, caller>>
                    [] mode = "NoCache" ->
                         Fetch("no_cache", [middleware EXCEPT !.no_cache = TRUE])
                    [] mode \in {"ForceCache", "OnlyIfCached", "IgnoreRules"} ->
                         Serve(Ok(serve_forced(engine, res)))
                    [] OTHER -> Fetch("hit", middleware)
                ELSE
                  IF mode = "OnlyIfCached"
                    THEN Serve(Ok(gateway_timeout(engine)))
                    ELSE Fetch("miss", middleware)
    /\ UNCHANGED <<store, origin, busting, pending, before, env>>

\* HttpCache::remote_fetch, lines 710-753, from the completion of
\* middleware.remote_fetch().await? to the put or delete it awaits next.
remote_fetch(p) ==
    /\ pc[p] = "remote_fetch"
    /\ \E out \in RemoteOutcomes :
         LET engine     == call[p].engine
             middleware == call[p].middleware
             res        == tag_remote(engine, out.res)
             pol        == policy(res)
         IN  IF out.tag = "err"
               THEN /\ Logged(p, "remote_fetch", Answer(out))
                    /\ Returns(p, out)
                    /\ UNCHANGED <<origin, pending>>
               ELSE /\ Logged(p, "remote_fetch", Answer(out))
                    /\ origin'  = origin + 1
                    /\ IF is_cacheable(engine, middleware, res, pol)
                         THEN /\ pending' = [pending EXCEPT ![p] =
                                              [res |-> res, policy |-> pol]]
                              /\ Goto(p, "put")
                              /\ UNCHANGED result
                         ELSE IF ~is_method_get_head(middleware)
                           THEN /\ pending' = [pending EXCEPT ![p] =
                                                [res |-> res, policy |-> pol]]
                                /\ Goto(p, "delete")
                                /\ UNCHANGED result
                           ELSE /\ Returns(p, Ok(back_in_run(engine, caller[p], res)))
                                /\ UNCHANGED pending
    /\ UNCHANGED <<store, call, caller, busting, cached, before, env>>

\* A serve_stale that forgets the warning.
serve_stale_unwarned(engine, cached_res) ==
    IF engine.options.cache_status_headers
      THEN cache_status(cached_res, HIT) ELSE cached_res

\* A serve_stale that forgets to tag x-cache.
serve_stale_untagged(engine, cached_res) ==
    add_warning(cached_res, 111, "Revalidation failed")

\* conditional_fetch, lines 789-797 and 861-869: the stale response is
\* served after a failed revalidation.
serve_stale(engine, cached_res) ==
    LET warned == add_warning(cached_res, 111, "Revalidation failed")
    IN  IF engine.options.cache_status_headers
          THEN cache_status(warned, HIT) ELSE warned

\* A revalidated that tags the response as fetched.
revalidated_as_miss(engine, cached_res, parts) ==
    LET merged == update_headers(cached_res, parts)
    IN  IF engine.options.cache_status_headers
          THEN cache_lookup_status(cache_status(merged, MISS), HIT)
          ELSE merged

\* A revalidated that marks the response it is about to put as one whose
\* revalidation failed.
revalidated_warned(engine, cached_res, parts) ==
    LET merged == add_warning(update_headers(cached_res, parts),
                              111, "Revalidation failed")
    IN  IF engine.options.cache_status_headers
          THEN cache_lookup_status(cache_status(merged, HIT), HIT)
          ELSE merged

\* conditional_fetch, lines 799-814: the stored response after a 304.
revalidated(engine, cached_res, parts) ==
    LET merged == update_headers(cached_res, parts)
    IN  IF engine.options.cache_status_headers
          THEN cache_lookup_status(cache_status(merged, HIT), HIT)
          ELSE merged

\* A replaced that tags the lookup as remote_fetch does.
replaced_lookup_miss(engine, cond_res) ==
    IF engine.options.cache_status_headers
      THEN cache_lookup_status(cache_status(cond_res, MISS), MISS)
      ELSE cond_res

\* conditional_fetch, lines 831-834: the new response after a 200.
replaced(engine, cond_res) ==
    IF engine.options.cache_status_headers
      THEN cache_lookup_status(cache_status(cond_res, MISS), HIT)
      ELSE cond_res

\* A fallback that warns as a failed revalidation does.
serve_cached_warned(engine, cached_res) ==
    LET warned == add_warning(cached_res, 111, "Revalidation failed")
    IN  IF engine.options.cache_status_headers
          THEN cache_status(warned, HIT) ELSE warned

\* A fallback that forgets to tag x-cache.
serve_cached_untagged(engine, cached_res) == cached_res

\* conditional_fetch, lines 846-849: any other status.
serve_cached(engine, cached_res) ==
    IF engine.options.cache_status_headers
      THEN cache_status(cached_res, HIT) ELSE cached_res

\* A conditional_fetch that goes on to an unconditional fetch when the
\* conditional one has failed.
conditional_fetch_retried(p) ==
    /\ pc[p] = "conditional_fetch"
    /\ Logged(p, "remote_fetch", <<>>)
    /\ Goto(p, "remote_fetch")
    /\ UNCHANGED <<store, origin, call, caller, busting, cached, before, env,
                   pending, result>>

\* HttpCache::conditional_fetch, lines 780-873, from the completion of
\* middleware.remote_fetch().await to the put it awaits next.
conditional_fetch(p) ==
    /\ pc[p] = "conditional_fetch"
    /\ \E out \in RemoteOutcomes :
         LET engine     == call[p].engine
             cached_res == cached[p].res
             cond_res   == out.res
             after_res  == after_response(cached[p].policy, Headers(cond_res))
             Put(res, pol) ==
                 /\ pending' = [pending EXCEPT ![p] = [res |-> res, policy |-> pol]]
                 /\ caller'  = [caller EXCEPT ![p] = "conditional"]
                 /\ Goto(p, "put")
                 /\ UNCHANGED result
             Serve(r) ==
                 /\ Returns(p, r)
                 /\ UNCHANGED <<pending, caller>>
         IN  IF out.tag = "err"
               THEN /\ Logged(p, "remote_fetch", Answer(out))
                    /\ UNCHANGED origin
                    /\ IF must_revalidate(cached_res)
                         THEN Serve(out)
                         ELSE Serve(Ok(serve_stale(engine, cached_res)))
               ELSE /\ Logged(p, "remote_fetch", Answer(out))
                    /\ origin' = origin + 1
                    /\ IF cond_res.status \in 500..599 /\ must_revalidate(cached_res)
                         THEN Serve(Ok(serve_stale(engine, cached_res)))
                       ELSE IF cond_res.status = 304
                         THEN Put(revalidated(engine, cached_res, after_res.parts),
                                  after_res.policy)
                       ELSE IF cond_res.status = 200
                         THEN Put(replaced(engine, cond_res), policy(cond_res))
                       ELSE Serve(Ok(serve_cached(engine, cached_res)))
    /\ UNCHANGED <<store, call, busting, cached, before, env>>

\* A put that leaves alone an entry it finds under the key.
manager_put_if_absent(p) ==
    /\ pc[p] = "put"
    /\ \E ok \in StorageOutcomes :
         /\ LoggedResult(p, "put", cache_key(call[p]), ok)
         /\ IF ok
           THEN /\ store' = IF store[cache_key(call[p])] = None
                              THEN [store EXCEPT ![cache_key(call[p])] = Some(pending[p])]
                              ELSE store
                /\ Returns(p, Ok(back_in_run(call[p].engine, caller[p], pending[p].res)))
           ELSE /\ Returns(p, Err("put"))
                /\ UNCHANGED store
    /\ UNCHANGED <<origin, call, caller, busting, cached, pending, before, env>>

\* A put whose error is dropped, as the error of the delete below is.
manager_put_error_dropped(p) ==
    /\ pc[p] = "put"
    /\ \E ok \in StorageOutcomes :
         /\ LoggedResult(p, "put", cache_key(call[p]), ok)
         /\ store' = IF ok THEN [store EXCEPT ![cache_key(call[p])] = Some(pending[p])]
                          ELSE store
    /\ Returns(p, Ok(back_in_run(call[p].engine, caller[p], pending[p].res)))
    /\ UNCHANGED <<origin, call, caller, busting, cached, pending, before, env>>

\* manager.put(cache_key, res, policy).await? of remote_fetch (lines 733-740)
\* and of conditional_fetch (lines 815-824, 835-844), and the return of its
\* result through run.
manager_put(p) ==
    /\ pc[p] = "put"
    /\ \E ok \in StorageOutcomes :
         /\ LoggedResult(p, "put", cache_key(call[p]), ok)
         /\ IF ok
           THEN /\ store' = [store EXCEPT ![cache_key(call[p])] = Some(pending[p])]
                /\ Returns(p, Ok(back_in_run(call[p].engine, caller[p], pending[p].res)))
           ELSE /\ Returns(p, Err("put"))
                /\ UNCHANGED store
    /\ UNCHANGED <<origin, call, caller, busting, cached, pending, before, env>>

\* A delete of the GET key that leaves the entry in the store.
manager_delete_kept(p) ==
    /\ pc[p] = "delete"
    /\ LET key == create_cache_key(call[p].engine.options,
                                   Parts(call[p].middleware), Some("GET"))
       IN  \E ok \in StorageOutcomes :
             /\ LoggedResult(p, "delete", key, ok)
             /\ store' = store
    /\ Returns(p, Ok(back_in_run(call[p].engine, caller[p], pending[p].res)))
    /\ UNCHANGED <<origin, call, caller, busting, cached, pending, before, env>>

\* remote_fetch, lines 741-750: manager.delete of the GET key after a request
\* that is neither GET nor HEAD; the outcome of the delete is dropped.
manager_delete(p) ==
    /\ pc[p] = "delete"
    /\ LET key == create_cache_key(call[p].engine.options,
                                   Parts(call[p].middleware), Some("GET"))
       IN  \E ok \in StorageOutcomes :
             /\ LoggedResult(p, "delete", key, ok)
             /\ store' = IF ok THEN [store EXCEPT ![key] = None] ELSE store
    /\ Returns(p, Ok(back_in_run(call[p].engine, caller[p], pending[p].res)))
    /\ UNCHANGED <<origin, call, caller, busting, cached, pending, before, env>>

\* The caller has the result of run(); the slot is free for the next request.
returned(p) ==
    /\ pc[p] = "done"
    /\ pc'      = [pc EXCEPT ![p] = "idle"]
    /\ call'    = [call EXCEPT ![p] = None]
    /\ caller'  = [caller EXCEPT ![p] = "-"]
    /\ busting' = [busting EXCEPT ![p] = <<>>]
    /\ cached'  = [cached EXCEPT ![p] = None]
    /\ pending' = [pending EXCEPT ![p] = None]
    /\ result'  = [result EXCEPT ![p] = None]
    /\ log'     = [log EXCEPT ![p] = <<>>]
    /\ before'  = [before EXCEPT ![p] = EmptyStore]
    /\ UNCHANGED <<store, origin, env>>

\* SystemTime::now() moves on by one freshness lifetime.  A policy's ttl is
\* counted from now, so every copy of a policy ages, the ones in the store
\* and the ones requests and snapshots hold.
AgedPolicy(pol) == [pol EXCEPT !.ttl = IF @ > 0 THEN @ - 1 ELSE 0]
Aged(x)         == IF x = None THEN x ELSE [x EXCEPT !.policy = AgedPolicy(@)]
AgedStore(st)   == [k \in Keys |->
                      IF st[k] = None THEN None ELSE Some(Aged(st[k].val))]

Tick ==
    /\ \E k \in Keys : store[k] # None /\ store[k].val.policy.ttl > 0
    /\ store'   = AgedStore(store)
    /\ pending' = [p \in Procs |-> Aged(pending[p])]
    /\ cached'  = [p \in Procs |-> Aged(cached[p])]
    /\ before'  = [p \in Procs |-> AgedStore(before[p])]
    /\ UNCHANGED <<origin, pc, call, caller, busting, result, log, env>>

Next ==
    \/ \E p \in Procs : run(p)
    \/ \E p \in Procs : cache_bust_delete(p)
    \/ \E p \in Procs : manager_get(p)
    \/ \E p \in Procs : remote_fetch(p)
    \/ \E p \in Procs : conditional_fetch(p)
    \/ \E p \in Procs : manager_put(p)
    \/ \E p \in Procs : manager_delete(p)
    \/ \E p \in Procs : returned(p)
    \/ Tick

Spec == Init /\ [][Next]_vars

\* The same engine over a CacheManager whose get, put and delete may return
\* an error.
InitStorageFaults == InitWith([concurrent |-> FALSE, storage_faults |-> TRUE])
SpecStorageFaults == InitStorageFaults /\ [][Next]_vars

\* The same engine shared by two callers whose calls of run overlap.
InitConcurrent == InitWith([concurrent |-> TRUE, storage_faults |-> FALSE])
SpecConcurrent == InitConcurrent /\ [][Next]_vars

\* ------------------------------------------------------------------- claims
\* What the claims read off a request slot.
Active(p)      == pc[p] # "idle"
Done(p)        == pc[p] = "done"
Served(p)      == Done(p) /\ result[p].tag = "ok"
EngineOf(p)    == call[p].engine
RequestOf(p)   == call[p].middleware
ModeOf(p)      == cache_mode(EngineOf(p), RequestOf(p))
KeyOf(p)       == cache_key(call[p])
StatusTags(p)  == EngineOf(p).options.cache_status_headers
HasOp(p, op)   == \E i \in DOMAIN log[p] : log[p][i][1] = op
StorageOps(p)  == {i \in DOMAIN log[p] : log[p][i][1] \in {"get", "put", "delete"}}
GetKey(uri)    == <<"GET", uri>>
Stored(st)     == {k \in Keys : st[k] # None}

\* Plain requests: default options, no mode override.
Plain(p, mode, method) ==
    /\ EngineOf(p) = Engine(mode, DefaultOptions)
    /\ RequestOf(p).method = method
    /\ RequestOf(p).overridden_cache_mode = None

\* The keys the request's cache_bust deletions cover.
BustKeys(p) ==
    IF can_cache_request(EngineOf(p), RequestOf(p)) /\ EngineOf(p).options.cache_bust
      THEN LET bust == CacheBustFn(Parts(RequestOf(p)), KeyOf(p))
           IN  {bust[i] : i \in DOMAIN bust}
      ELSE {}

\* The entry the store held under the request's key when the request
\* started, its cache-bust deletions applied.
EntryAtStart(p) ==
    IF KeyOf(p) \in BustKeys(p) THEN None ELSE before[p][KeyOf(p)]

\* C1: with cache_status_headers enabled, the response run returns carries
\* x-cache-lookup: HIT exactly when the store held an entry under the
\* request's key when the request started (after its cache-bust deletions),
\* under every mode.
C1_LookupHitIffStored ==
    \A p \in Procs :
      Served(p) /\ StatusTags(p) =>
        (result[p].res.xlookup = HIT <=> EntryAtStart(p) # None)

\* C2: with cache_status_headers enabled, the response run returns carries
\* x-cache: HIT exactly when its body is the body of the entry the request
\* read from the store, and x-cache: MISS otherwise (a body from
\* remote_fetch, the synthesized 504).
C2_CacheHitIffBodyFromStore ==
    \A p \in Procs :
      Served(p) /\ StatusTags(p) =>
        LET res  == result[p].res
            read == IF HasOp(p, "get") THEN EntryAtStart(p) ELSE None
        IN  /\ res.xcache \in {HIT, MISS}
            /\ res.xcache = HIT <=> (read # None /\ res.body = read.val.res.body)

C2_Witness ==
    \E p \in Procs :
      /\ Served(p) /\ StatusTags(p)
      /\ HasOp(p, "get") /\ HasOp(p, "remote_fetch") /\ ~HasOp(p, "put")
      /\ result[p].res.xcache = HIT
      /\ result[p].res.body = EntryAtStart(p).val.res.body
      /\ result[p].res.warning = NoWarning

\* C3: from an empty store, a Default GET answered 200, storable and fresh
\* leaves exactly one entry, under "GET:{URL}"; the next identical request
\* returns the origin's body with x-cache: HIT and x-cache-lookup: HIT and
\* issues nothing but the lookup: no remote fetch (the origin has answered
\* once in all), no put, no delete.
C3_ColdThenHot ==
    \A p \in Procs :
      Done(p) /\ Plain(p, "Default", "GET") =>
        LET key == GetKey(RequestOf(p).uri)
        IN  /\ ( /\ before[p] = EmptyStore
                 /\ Served(p)
                 /\ result[p].res.status = 200
                 /\ result[p].res.cc = "max-age=86400, public" )
               => /\ Stored(store) = {key}
                  /\ store[key].val.res.body = result[p].res.body
                  /\ KeyOf(p) = key
            /\ ( /\ origin = 1
                 /\ Stored(before[p]) = {key}
                 /\ before[p][key].val.policy.ttl > 0 )
               => /\ Served(p)
                  /\ result[p].res.body = OriginBody(1)
                  /\ result[p].res.xcache = HIT
                  /\ result[p].res.xlookup = HIT
                  /\ log[p] = << <<"get", key>> >>
                  /\ store = before[p]

C3_Witness ==
    \E p \in Procs :
      /\ Done(p) /\ Plain(p, "Default", "GET")
      /\ origin = 1
      /\ Stored(before[p]) = {GetKey(RequestOf(p).uri)}
      /\ before[p][GetKey(RequestOf(p).uri)].val.policy.ttl > 0
      /\ before[p][GetKey(RequestOf(p).uri)].val.res.xcache = MISS
      /\ result[p].res.xcache = HIT
      /\ result[p].res.body = OriginBody(1)

\* C4: under Default with the default key derivation, once a request that
\* is neither GET nor HEAD has got its remote response, the store holds no
\* entry under "GET:{URL}", whatever it held before.
C4_UnsafeMethodDeletesGetEntry ==
    \A p \in Procs :
      ( /\ Served(p)
        /\ ModeOf(p) = "Default"
        /\ ~EngineOf(p).options.cache_key
        /\ ~is_method_get_head(RequestOf(p)) )
      => store[GetKey(RequestOf(p).uri)] = None

C4_Witness ==
    \E p \in Procs :
      /\ Served(p) /\ Plain(p, "Default", "POST")
      /\ result[p].res.status = 201
      /\ before[p][GetKey(RequestOf(p).uri)] # None
      /\ store[GetKey(RequestOf(p).uri)] = None

\* C5: under every mode and for every 2xx status, once a request that is
\* neither GET nor HEAD has completed, the store holds no entry under the
\* GET key of its URL.
C5_UnsafeMethodInvalidatesInEveryMode ==
    \A p \in Procs :
      ( /\ Served(p)
        /\ EngineOf(p).options = DefaultOptions
        /\ ~is_method_get_head(RequestOf(p))
        /\ result[p].res.status \in 200..299 )
      => store[GetKey(RequestOf(p).uri)] = None

\* C6: no request whose method is neither GET nor HEAD ever causes a put,
\* under any mode and for any response status.
C6_OnlyGetHeadPut ==
    \A p \in Procs :
      Active(p) /\ HasOp(p, "put") => is_method_get_head(RequestOf(p))

\* C7: every put under a mode other than IgnoreRules stores a response its
\* policy admits (is_storable), on the write-through path and on both
\* revalidation paths.
C7_PutsArePolicyAdmitted ==
    \A p \in Procs :
      Active(p) /\ HasOp(p, "put") /\ ModeOf(p) # "IgnoreRules"
        => is_storable(pending[p].policy)

\* C8: from an empty store and for any sequence of requests in any modes,
\* every entry in the store has response status 200.
C8_StoredStatusIs200 ==
    \A k \in Keys : store[k] # None => store[k].val.res.status = 200

C8_Witness ==
    \E p \in Procs :
      /\ Done(p) /\ caller[p] = "conditional" /\ HasOp(p, "put")
      /\ result[p].res.xcache = HIT
      /\ store[KeyOf(p)].val.res.status = 200
      /\ origin > 1

\* C9: under NoStore no put is ever performed; a GET under NoStore leaves an
\* empty key empty, contacts the origin every time and comes back with
\* x-cache: MISS and x-cache-lookup: MISS.
C9_NoStoreNeverPuts ==
    \A p \in Procs :
      Active(p) /\ ModeOf(p) = "NoStore" =>
        /\ ~HasOp(p, "put")
        /\ Done(p) /\ RequestOf(p).method = "GET" =>
             /\ before[p][KeyOf(p)] = None => store[KeyOf(p)] = None
             /\ HasOp(p, "remote_fetch")
             /\ Served(p) /\ StatusTags(p) =>
                  /\ result[p].res.xcache = MISS
                  /\ result[p].res.xlookup = MISS

C9_Witness ==
    \E p \in Procs :
      /\ Served(p) /\ Plain(p, "NoStore", "GET")
      /\ origin > 1 /\ store = EmptyStore
      /\ result[p].res.status = 200
      /\ result[p].res.cc = "max-age=86400, public"
      /\ result[p].res.xcache = MISS /\ result[p].res.xlookup = MISS

Answered(p, a) == \E i \in DOMAIN log[p] : log[p][i] = <<"remote_fetch", a>>

\* C11: under OnlyIfCached, with no entry stored under the request's key,
\* run returns status 504 and never calls remote_fetch, whatever the method.
C11_OnlyIfCachedMissIs504 ==
    \A p \in Procs :
      Done(p) /\ ModeOf(p) = "OnlyIfCached" /\ before[p][KeyOf(p)] = None =>
        /\ Served(p)
        /\ result[p].res.status = 504
        /\ ~HasOp(p, "remote_fetch")

\* C12: under IgnoreRules every 200 answer to a GET or HEAD is put under the
\* request's key, storable by its policy or not, and a request that finds an
\* entry under its key is served that entry with x-cache: HIT and
\* x-cache-lookup: HIT, issuing the lookup and nothing else.
C12_IgnoreRulesStoresAndServes ==
    \A p \in Procs :
      Done(p) /\ ModeOf(p) = "IgnoreRules" /\ is_method_get_head(RequestOf(p)) =>
        /\ Answered(p, <<200>>) =>
             /\ Served(p)
             /\ log[p][Len(log[p])] = <<"put", KeyOf(p)>>
             /\ store[KeyOf(p)] # None
             /\ store[KeyOf(p)].val.res.body = result[p].res.body
             /\ store[KeyOf(p)].val.res.cc = result[p].res.cc
        /\ EntryAtStart(p) # None =>
             /\ Served(p)
             /\ result[p].res.body = EntryAtStart(p).val.res.body
             /\ StatusTags(p) => /\ result[p].res.xcache = HIT
                                 /\ result[p].res.xlookup = HIT
             /\ log[p] = << <<"get", KeyOf(p)>> >>
             /\ store = before[p]

C12_Witness ==
    \E p \in Procs :
      /\ Done(p) /\ Plain(p, "IgnoreRules", "GET")
      /\ EntryAtStart(p) # None
      /\ ~is_storable(EntryAtStart(p).val.policy)
      /\ NoStoreDirective(EntryAtStart(p).val.res.cc)
      /\ result[p].res.body = OriginBody(1)
      /\ result[p].res.xcache = HIT /\ result[p].res.xlookup = HIT
      /\ origin = 1

\* What the claims read off a revalidation: a Default request that found an
\* entry under its key and went to the origin with it.
Revalidation(p) ==
    /\ Done(p) /\ ModeOf(p) = "Default"
    /\ HasOp(p, "get") /\ HasOp(p, "remote_fetch")
    /\ EntryAtStart(p) # None
ServerError(p) == \E st \in 500..599 : Answered(p, <<st>>)
\* The operations the request issued from its lookup on.
GetAt(p)    == CHOOSE i \in DOMAIN log[p] : log[p][i][1] = "get"
SinceGet(p) == SubSeq(log[p], GetAt(p), Len(log[p]))
\* The store the request started with, its cache-bust deletions applied.
AfterBust(p) ==
    [k \in Keys |-> IF k \in BustKeys(p) THEN None ELSE before[p][k]]
\* The policies a 304 can turn pol into.
Refreshed(pol) ==
    {after_response(pol, Headers(r)).policy :
       r \in {x \in OriginResponses(1) : x.status = 304}}

\* C13: under Default, a stale entry revalidated with a 304 is returned with
\* the stored body, x-cache: HIT and x-cache-lookup: HIT; the request puts
\* once, under its key, the stored body with the refreshed policy.
C13_Revalidation304KeepsBody ==
    \A p \in Procs :
      Revalidation(p) /\ Answered(p, <<304>>) =>
        LET k   == KeyOf(p)
            old == EntryAtStart(p).val
        IN  /\ Served(p)
            /\ result[p].res.body = old.res.body
            /\ StatusTags(p) => /\ result[p].res.xcache = HIT
                                /\ result[p].res.xlookup = HIT
            /\ SinceGet(p) = << <<"get", k>>, <<"remote_fetch", <<304>> >>,
                                <<"put", k>> >>
            /\ store[k] # None
            /\ store[k].val.res.body = old.res.body
            /\ \E pol \in Refreshed(old.policy) :
                 /\ store[k].val.policy.headers = pol.headers
                 /\ store[k].val.policy.storable = pol.storable
                 /\ store[k].val.policy.ttl <= pol.ttl

C13_Witness ==
    \E p \in Procs :
      /\ Revalidation(p) /\ Answered(p, <<304>>)
      /\ Plain(p, "Default", "GET")
      /\ result[p].res.body = OriginBody(1)
      /\ result[p].res.xcache = HIT /\ result[p].res.xlookup = HIT
      /\ store[KeyOf(p)].val.res.body = OriginBody(1)
      /\ origin = 2

\* The last operation a step of the request added to its log, if any.
Issued(p, op, k) ==
    /\ Len(log'[p]) = Len(log[p]) + 1
    /\ log'[p][Len(log'[p])] = <<op, k>>

\* C14: under Default, a stale entry revalidated with a 200 is replaced: run
\* returns the origin's new body with x-cache: MISS and x-cache-lookup: HIT
\* and the entry under the request's key holds that body; and the response
\* stored under a key stays what it is until a put or a delete of that key.
C14_Revalidation200Replaces ==
    /\ [](\A p \in Procs :
            Revalidation(p) /\ Answered(p, <<200>>) =>
              LET k   == KeyOf(p)
                  old == EntryAtStart(p).val
              IN  /\ Served(p)
                  /\ result[p].res.body = OriginBody(origin)
                  /\ result[p].res.body # old.res.body
                  /\ StatusTags(p) => /\ result[p].res.xcache = MISS
                                      /\ result[p].res.xlookup = HIT
                  /\ SinceGet(p) = << <<"get", k>>, <<"remote_fetch", <<200>> >>,
                                      <<"put", k>> >>
                  /\ store[k] # None
                  /\ store[k].val.res.body = result[p].res.body)
    /\ [][\A k \in Keys :
            store[k] # None =>
              \/ store'[k] # None /\ store'[k].val.res = store[k].val.res
              \/ \E p \in Procs : Issued(p, "put", k) \/ Issued(p, "delete", k)]_vars

C14_Witness ==
    \E p \in Procs :
      /\ Revalidation(p) /\ Answered(p, <<200>>)
      /\ Plain(p, "Default", "GET")
      /\ EntryAtStart(p).val.res.body = OriginBody(1)
      /\ result[p].res.body = OriginBody(2)
      /\ result[p].res.xcache = MISS /\ result[p].res.xlookup = HIT
      /\ store[KeyOf(p)].val.res.body = OriginBody(2)

\* C15: under Default, when the revalidation of a must-revalidate entry is
\* answered 5xx, run returns the stored body with warning 111, x-cache: HIT
\* and x-cache-lookup: HIT and no error, issues no put and no delete, and
\* the store is as it was.
C15_ServerErrorServesMustRevalidate ==
    \A p \in Procs :
      ( /\ Revalidation(p) /\ ServerError(p)
        /\ must_revalidate(EntryAtStart(p).val.res) ) =>
        LET old == EntryAtStart(p).val
        IN  /\ Served(p)
            /\ result[p].res.body = old.res.body
            /\ warning_code(result[p].res) = Some(111)
            /\ StatusTags(p) => /\ result[p].res.xcache = HIT
                                /\ result[p].res.xlookup = HIT
            /\ Len(SinceGet(p)) = 2
            /\ ~HasOp(p, "put")
            /\ store = AfterBust(p)

C15_Witness ==
    \E p \in Procs :
      /\ Revalidation(p) /\ Answered(p, <<500>>)
      /\ Plain(p, "Default", "GET")
      /\ must_revalidate(EntryAtStart(p).val.res)
      /\ result[p].res.body = OriginBody(1)
      /\ result[p].res.warning = <<111, "Revalidation failed">>
      /\ store = before[p]

C17_FailedRevalidationServesStale ==
    \A p \in Procs :
      Revalidation(p) /\ (Answered(p, <<>>) \/ ServerError(p)) =>
        /\ Served(p)
        /\ result[p].res.body = EntryAtStart(p).val.res.body
        /\ warning_code(result[p].res) = Some(111)

\* C18: a stored must-revalidate response is never served after a failed
\* revalidation (a fetch error or a 5xx status).
C18_MustRevalidateNeverServedStale ==
    \A p \in Procs :
      ( /\ Revalidation(p) /\ (Answered(p, <<>>) \/ ServerError(p))
        /\ must_revalidate(EntryAtStart(p).val.res) ) =>
        ~(Served(p) /\ result[p].res.body = EntryAtStart(p).val.res.body)

\* The cache-control values that carry the must-revalidate directive.
MustRevalidateEntry(p) == EntryAtStart(p).val.res.cc = "public, must-revalidate"

\* C18, amended: a stored must-revalidate response is never served after a
\* revalidation whose remote fetch returned an error: run returns the error;
\* after a 5xx answer it is served, with warning 111.
C18_MustRevalidateNotServedOnFetchError ==
    \A p \in Procs :
      Revalidation(p) /\ MustRevalidateEntry(p) =>
        /\ Answered(p, <<>>) =>
             /\ ~Served(p)
             /\ result[p] = Err("remote_fetch")
        /\ ServerError(p) =>
             /\ Served(p)
             /\ result[p].res.body = EntryAtStart(p).val.res.body
             /\ warning_code(result[p].res) = Some(111)

C18_Witness ==
    \E p \in Procs :
      /\ Revalidation(p) /\ MustRevalidateEntry(p)
      /\ Answered(p, <<>>)
      /\ result[p] = Err("remote_fetch")
      /\ store = before[p] /\ store[KeyOf(p)] # None

\* A warning header value with a warn-code in [100, 200).
Is1xx(warning) == warning # NoWarning /\ warning[1] \in 100..199

\* C19: a response answered from a stored entry whose warning header has a
\* 1xx code does not carry that warning under any mode that serves from the
\* store: it carries none, or the 111 or 112 the engine adds; a fresh hit
\* under Default carries no warning header at all.
C19_Stored1xxWarningNotServed ==
    \A p \in Procs :
      ( /\ Served(p) /\ HasOp(p, "get")
        /\ EntryAtStart(p) # None
        /\ Is1xx(EntryAtStart(p).val.res.warning)
        /\ result[p].res.body = EntryAtStart(p).val.res.body ) =>
        /\ result[p].res.warning # EntryAtStart(p).val.res.warning
        /\ result[p].res.warning \in {NoWarning, <<111, "Revalidation failed">>,
                                       <<112, "Disconnected operation">>}
        /\ ModeOf(p) = "Default" /\ ~HasOp(p, "remote_fetch")
             => result[p].res.warning = NoWarning

C19_Witness ==
    \E p \in Procs :
      /\ Served(p) /\ Plain(p, "Default", "GET")
      /\ log[p] = << <<"get", KeyOf(p)>> >>
      /\ EntryAtStart(p) # None
      /\ EntryAtStart(p).val.res.warning = <<101, "Test">>
      /\ store[KeyOf(p)].val.res.warning = <<101, "Test">>
      /\ result[p].res.body = EntryAtStart(p).val.res.body
      /\ result[p].res.warning = NoWarning

\* C20: no stored response has a warning header with a 1xx code, entries
\* written through from the origin and entries re-stored on the 304 path
\* included.
C20_NoStored1xxWarning ==
    \A k \in Keys : store[k] # None => ~Is1xx(store[k].val.res.warning)

\* C20, amended: an entry re-stored on the 304 path (the 304 carrying no
\* warning header) has no 1xx warning, whatever the entry it replaces had;
\* an entry written through by remote_fetch has the warning header the
\* origin sent, a 1xx one included.
C20_1xxWarningStrippedOnRevalidation ==
    \A p \in Procs :
      Done(p) /\ HasOp(p, "put") /\ store[KeyOf(p)] # None =>
        IF Revalidation(p) /\ Answered(p, <<304>>)
          THEN ~Is1xx(store[KeyOf(p)].val.res.warning)
          ELSE /\ Served(p)
               /\ store[KeyOf(p)].val.res.warning = result[p].res.warning
               /\ \E r \in OriginResponses(origin) :
                    /\ r.body = result[p].res.body
                    /\ r.warning = store[KeyOf(p)].val.res.warning

C20_Witness ==
    \E p \in Procs :
      /\ Revalidation(p) /\ Answered(p, <<304>>)
      /\ Is1xx(EntryAtStart(p).val.res.warning)
      /\ store[KeyOf(p)] # None
      /\ store[KeyOf(p)].val.res.body = EntryAtStart(p).val.res.body
      /\ store[KeyOf(p)].val.res.warning = NoWarning

\* The remote fetches the request has made.
RemoteFetches(p) == {i \in DOMAIN log[p] : log[p][i][1] = "remote_fetch"}

\* What run returned is the origin's latest answer (status, body,
\* cache-control and warning), or the error of the fetch.
ReturnsNetworkResponse(p) ==
    IF Answered(p, <<>>)
      THEN result[p] = Err("remote_fetch")
      ELSE /\ Served(p)
           /\ Answered(p, <<result[p].res.status>>)
           /\ \E r \in OriginResponses(origin) :
                /\ result[p].res.status  = r.status
                /\ result[p].res.body    = r.body
                /\ result[p].res.cc      = r.cc
                /\ result[p].res.warning = r.warning

\* C21: under Reload a GET or HEAD request never calls storage get, makes
\* exactly one remote fetch, returns the network response and writes it
\* through when it is storable.
C21_ReloadSkipsLookup ==
    \A p \in Procs :
      ( /\ Done(p) /\ ModeOf(p) = "Reload"
        /\ is_method_get_head(RequestOf(p)) ) =>
        /\ ~HasOp(p, "get")
        /\ Cardinality(RemoteFetches(p)) = 1
        /\ ReturnsNetworkResponse(p)
        /\ ( /\ Served(p) /\ result[p].res.status = 200
             /\ is_storable(policy(result[p].res)) ) =>
             /\ store[KeyOf(p)] # None
             /\ store[KeyOf(p)].val.res = result[p].res

\* C22: under NoCache, when an entry is stored under the request's key, the
\* outgoing request carries the validators of that entry (update_headers was
\* applied to it) by the time the remote fetch is issued.
C22_NoCacheSendsValidators ==
    \A p \in Procs :
      ( /\ Active(p) /\ ModeOf(p) = "NoCache"
        /\ HasOp(p, "get") /\ EntryAtStart(p) # None
        /\ pc[p] = "remote_fetch" \/ HasOp(p, "remote_fetch") ) =>
        RequestOf(p).validators

C24_CacheKeyDerivation ==
    \A p \in Procs :
      Active(p) =>
        LET parts  == Parts(RequestOf(p))
            custom == EngineOf(p).options.cache_key
            own    == IF custom THEN CacheKeyFn(parts)
                                ELSE <<parts.method, parts.uri>>
            get    == IF custom THEN CacheKeyFn(parts)
                                ELSE <<"GET", parts.uri>>
        IN  /\ KeyOf(p) = own
            /\ \A i \in DOMAIN log[p] :
                 /\ log[p][i][1] \in {"get", "put"} => log[p][i][2] = own
                 /\ log[p][i][1] = "delete" =>
                      IF \E j \in 1..(i - 1) : log[p][j][1] = "remote_fetch"
                        THEN log[p][i][2] = get
                        ELSE log[p][i][2] \in BustKeys(p)

C24_Witness ==
    \E p \in Procs :
      /\ Done(p)
      /\ EngineOf(p).options.cache_key
      /\ RequestOf(p).method = "POST"
      /\ log[p] = << <<"remote_fetch", <<201>> >>,
                     <<"delete", <<"POST", "/", "test">> >> >>
      /\ store[<<"GET", "/", "test">>] # None

\* The CacheManager returned an error to an op of the request.
FailedOp(p, op) ==
    \E i \in DOMAIN log[p] : log[p][i][1] = op /\ Len(log[p][i]) = 3

\* The last operation the request issued.
LastOp(p) == log[p][Len(log[p])][1]

C26_GetAndPutErrorsSurface ==
    \A p \in Procs :
      Active(p) =>
        /\ FailedOp(p, "get") =>
             /\ Done(p) /\ result[p] = Err("get")
             /\ LastOp(p) = "get"
             /\ RemoteFetches(p) = {}
             /\ store = AfterBust(p)
        /\ FailedOp(p, "put") =>
             /\ Done(p) /\ result[p] = Err("put")
             /\ LastOp(p) = "put"
             /\ store = AfterBust(p)

C26_Witness ==
    \E p \in Procs :
      /\ Revalidation(p) /\ Answered(p, <<304>>)
      /\ FailedOp(p, "put")
      /\ result[p] = Err("put")
      /\ store[KeyOf(p)] # None
      /\ store[KeyOf(p)] = before[p][KeyOf(p)]

\* The puts the request has issued.
Puts(p) == {i \in DOMAIN log[p] : log[p][i][1] = "put"}

\* C27: a call of run issues at most one put, in every mode and on every
\* path, and the key of that put is the key of the request itself.
C27_AtMostOnePut ==
    \A p \in Procs :
      Active(p) =>
        LET parts == Parts(RequestOf(p))
            own   == IF EngineOf(p).options.cache_key
                       THEN CacheKeyFn(parts)
                       ELSE <<parts.method, parts.uri>>
        IN  /\ Cardinality(Puts(p)) <= 1
            /\ \A i \in Puts(p) : log[p][i][2] = own
            /\ pc[p] = "put" => Puts(p) = {}

C27_Witness ==
    \E p \in Procs :
      /\ Done(p)
      /\ Plain(p, "IgnoreRules", "HEAD")
      /\ log[p] = << <<"get", <<"HEAD", "/">> >>, <<"remote_fetch", <<200>> >>,
                     <<"put", <<"HEAD", "/">> >> >>
      /\ store[<<"HEAD", "/">>] # None
      /\ store[<<"GET", "/">>] # None

C30_ForcedModesServeStored ==
    \A p \in Procs :
      ( /\ Done(p)
        /\ ModeOf(p) \in {"ForceCache", "OnlyIfCached", "IgnoreRules"}
        /\ EntryAtStart(p) # None ) =>
        /\ Served(p)
        /\ result[p].res.body = EntryAtStart(p).val.res.body
        /\ warning_code(result[p].res) = Some(112)
        /\ StatusTags(p) => /\ result[p].res.xcache = HIT
                            /\ result[p].res.xlookup = HIT
        /\ RemoteFetches(p) = {}
        /\ LastOp(p) = "get"
        /\ ~HasOp(p, "put")
        /\ store = AfterBust(p)

\* The lookup of the request found an entry: the request holds it for
\* revalidation, or was served it.
ObservedHit(p) ==
    /\ HasOp(p, "get")
    /\ \/ cached[p] # None
       \/ Served(p) /\ RemoteFetches(p) = {} /\ result[p].res.status # 504

\* The order of the operations of one request: the cache_bust deletes, all
\* of them, then the get, then remote fetch and put; a request that waits
\* for its put has not returned, and the put is the last thing a request
\* that put did.
OrderWithinRequest(p) ==
    /\ \A i \in DOMAIN log[p] :
         /\ log[p][i][1] = "get" =>
              /\ i = Cardinality(BustKeys(p)) + 1
              /\ \A j \in 1..(i - 1) : log[p][j][1] = "delete"
         /\ ( /\ log[p][i][1] \in {"remote_fetch", "put"}
              /\ can_cache_request(EngineOf(p), RequestOf(p)) ) =>
              \E j \in 1..(i - 1) : log[p][j][1] = "get"
    /\ pc[p] = "put" => result[p] = None /\ Puts(p) = {}
    /\ Done(p) /\ Puts(p) # {} => LastOp(p) = "put"

\* C29, as stated: within one cacheable request the cache_bust deletes come
\* before the get, the get before remote fetch and put, the put before the
\* return, and a request never finds an entry under a key its own
\* cache_bust returned.
C29_BustedKeyNeverHit ==
    \A p \in Procs :
      Active(p) =>
        /\ OrderWithinRequest(p)
        /\ KeyOf(p) \in BustKeys(p) => ~ObservedHit(p)

\* C29, amended: the same order; every cache_bust key is absent from the
\* store when the request's delete of it completes, and while the request
\* waits for its lookup an entry appears under such a key only by the put of
\* another request.
C29_BustedKeyAbsentUntilOtherPut ==
    /\ [](\A p \in Procs : Active(p) => OrderWithinRequest(p))
    /\ [][\A p \in Procs :
            /\ pc[p] = "cache_bust" /\ pc'[p] # "cache_bust" =>
                 store'[Head(busting[p])] = None
            /\ \A k \in Keys :
                 ( /\ pc[p] = "get" /\ k \in BustKeys(p)
                   /\ store[k] = None /\ store'[k] # None ) =>
                   \E q \in Procs \ {p} :
                     /\ pc[q] = "put" /\ pc'[q] = "done"
                     /\ KeyOf(q) = k
                     /\ pc'[p] = "get"]_vars

C29_Witness ==
    \E p \in Procs :
      /\ Active(p)
      /\ EngineOf(p).options.cache_bust
      /\ KeyOf(p) \in BustKeys(p)
      /\ before[p][KeyOf(p)] # None
      /\ log[p] = << <<"delete", KeyOf(p)>>, <<"get", KeyOf(p)>> >>
      /\ ObservedHit(p)
      /\ \E q \in Procs \ {p} : Done(q) /\ LastOp(q) = "put" /\ KeyOf(q) = KeyOf(p)

\* C31: under NoCache a GET makes exactly one remote fetch, with or without
\* an entry under its key, and returns the answer of the origin.  When there
\* is an entry, force_no_cache has been applied to the request by the time
\* of the fetch and the response returned carries x-cache: MISS and
\* x-cache-lookup: HIT.  A storable 200 is put under the request's key
\* either way.
C31_NoCacheAlwaysFetches ==
    \A p \in Procs :
      ( /\ Active(p) /\ ModeOf(p) = "NoCache"
        /\ RequestOf(p).method = "GET" ) =>
        LET hit == HasOp(p, "get") /\ EntryAtStart(p) # None
        IN  /\ hit /\ (pc[p] = "remote_fetch" \/ RemoteFetches(p) # {}) =>
                 RequestOf(p).no_cache
            /\ Cardinality(RemoteFetches(p)) <= 1
            /\ Done(p) =>
                 /\ Cardinality(RemoteFetches(p)) = 1
                 /\ ReturnsNetworkResponse(p)
                 /\ Served(p) /\ StatusTags(p) =>
                      /\ result[p].res.xcache = MISS
                      /\ result[p].res.xlookup = IF hit THEN HIT ELSE MISS
                 /\ ( /\ Served(p) /\ result[p].res.status = 200
                      /\ is_storable(policy(result[p].res)) ) =>
                      /\ LastOp(p) = "put"
                      /\ store[KeyOf(p)] # None
                      /\ store[KeyOf(p)].val.res.body = result[p].res.body

C31_Witness ==
    \E p \in Procs :
      /\ Done(p) /\ Plain(p, "NoCache", "GET")
      /\ EntryAtStart(p) # None
      /\ EntryAtStart(p).val.res.body = OriginBody(1)
      /\ EntryAtStart(p).val.policy.ttl > 0
      /\ RequestOf(p).no_cache
      /\ log[p] = << <<"get", KeyOf(p)>>, <<"remote_fetch", <<200>> >>,
                     <<"put", KeyOf(p)>> >>
      /\ result[p].res.body = OriginBody(2)
      /\ result[p].res.xcache = MISS /\ result[p].res.xlookup = HIT
      /\ store[KeyOf(p)].val.res.body = OriginBody(2)

\* The revalidation was answered with a status that is neither 304 nor 200
\* nor a 5xx for a must-revalidate entry.
OtherStatus(p) ==
    \E st \in OriginStatuses \ {200, 304} :
      /\ Answered(p, <<st>>)
      /\ ~(st \in 500..599 /\ MustRevalidateEntry(p))

\* C32: under Default, when the revalidation of a stale entry is answered
\* with a status that is neither 304 nor 200, and not a 5xx for a
\* must-revalidate entry, run returns the stored response (status, body,
\* cache-control, and its warning unless that is a 1xx one) with
\* x-cache: HIT; what the origin sent is dropped, no put and no delete is
\* issued, and the store is as it was.
C32_OtherStatusServesStored ==
    \A p \in Procs :
      Revalidation(p) /\ OtherStatus(p) =>
        LET old == EntryAtStart(p).val.res
        IN  /\ Served(p)
            /\ result[p].res.status = old.status
            /\ result[p].res.body = old.body
            /\ result[p].res.cc = old.cc
            /\ result[p].res.warning =
                 IF Is1xx(old.warning) THEN NoWarning ELSE old.warning
            /\ StatusTags(p) => result[p].res.xcache = HIT
            /\ Len(SinceGet(p)) = 2
            /\ ~HasOp(p, "put")
            /\ store = AfterBust(p)

C32_Witness ==
    \E p \in Procs :
      /\ Revalidation(p) /\ Answered(p, <<404>>)
      /\ Plain(p, "Default", "GET")
      /\ result[p].res.status = 200
      /\ result[p].res.body = OriginBody(1)
      /\ result[p].res.xcache = HIT
      /\ origin = 2
      /\ store = before[p]

\* A request that is neither GET nor HEAD has completed under Default (keys
\* derived the default way) with the origin's answer, its delete of the GET
\* key behind it.
UnsafeCompleted(q) ==
    /\ Served(q) /\ ModeOf(q) = "Default"
    /\ ~EngineOf(q).options.cache_key
    /\ ~is_method_get_head(RequestOf(q))
    /\ LastOp(q) = "delete"

\* The place of a body in the sequence of the origin's answers.
Serial(body) == body[2]

\* C33: with requests running concurrently on one store, once a request
\* that is neither GET nor HEAD has completed for a URL under Default, the
\* store holds no entry under the GET key of that URL except one stored by a
\* GET that started later, that is, one holding an answer the origin gave
\* after it answered the completed request.
C33_NoEntryFromEarlierGet ==
    \A q \in Procs :
      Active(q) /\ UnsafeCompleted(q) =>
        LET entry == store[GetKey(RequestOf(q).uri)]
        IN  entry # None =>
              Serial(entry.val.res.body) > Serial(result[q].res.body)

\* C33, amended: when such a request completes, its delete leaves no entry
\* under the GET key at that moment; an entry appears under a key only by
\* the put of a request with that key, be it one that was in flight when
\* the delete happened.
C33_DeletedAtCompletion ==
    /\ [][\A q \in Procs :
            pc[q] = "delete" /\ pc'[q] = "done" =>
              store'[GetKey(RequestOf(q).uri)] = None]_vars
    /\ [][\A k \in Keys :
            store[k] = None /\ store'[k] # None =>
              \E p \in Procs :
                /\ pc[p] = "put" /\ pc'[p] = "done"
                /\ KeyOf(p) = k
                /\ store'[k] = Some(pending[p])]_vars

C33_Witness ==
    \E p, q \in Procs :
      /\ p # q
      /\ Active(q) /\ UnsafeCompleted(q)
      /\ Done(p) /\ RequestOf(p).method = "GET"
      /\ log[p] = << <<"get", KeyOf(p)>>, <<"remote_fetch", <<200>> >>,
                     <<"put", KeyOf(p)>> >>
      /\ KeyOf(p) = GetKey(RequestOf(q).uri)
      /\ store[KeyOf(p)] # None
      /\ store[KeyOf(p)].val.res.body = OriginBody(1)
      /\ result[q].res.body = OriginBody(2)

\* A Default request revalidated the entry its lookup found, was answered
\* with status st and has put.
Revalidated(p, st) ==
    /\ Served(p) /\ ModeOf(p) = "Default"
    /\ cached[p] # None
    /\ Answered(p, <<st>>)
    /\ LastOp(p) = "put"

\* C34: when two Default requests revalidate the same key concurrently, one
\* answered 200 with a new body and the other 304, the body stored once both
\* have completed is the new one: the put of the 304 path does not bring the
\* previous body back over it.
C34_NewBodySurvives304 ==
    \A p, q \in Procs :
      ( /\ p # q /\ Active(p) /\ Active(q)
        /\ Revalidated(p, 304) /\ Revalidated(q, 200)
        /\ KeyOf(p) = KeyOf(q) ) =>
        /\ store[KeyOf(q)] # None
        /\ store[KeyOf(q)].val.res.body = result[q].res.body

\* C34, amended: the last put to reach the store wins.  Every put replaces
\* the entry under its key with what the request holds, and the 304 path
\* holds the body it read at its lookup; once both requests have completed
\* the store has the new body if the put of the 200 path came last and the
\* previous body if the put of the 304 path came last.
C34_LastPutWins ==
    /\ [](\A p, q \in Procs :
            ( /\ p # q /\ Active(p) /\ Active(q)
              /\ Revalidated(p, 304) /\ Revalidated(q, 200)
              /\ KeyOf(p) = KeyOf(q) ) =>
              /\ result[p].res.body = cached[p].res.body
              /\ result[q].res.body # cached[q].res.body
              /\ store[KeyOf(q)] # None
              /\ store[KeyOf(q)].val.res.body
                   \in {result[p].res.body, result[q].res.body})
    /\ [][\A p \in Procs :
            pc[p] = "put" /\ pc'[p] = "done" /\ result'[p].tag = "ok" =>
              store'[KeyOf(p)] = Some(pending[p])]_vars

C34_Witness ==
    \E p, q \in Procs :
      /\ p # q /\ Active(p) /\ Active(q)
      /\ Revalidated(p, 304) /\ Revalidated(q, 200)
      /\ KeyOf(p) = KeyOf(q)
      /\ cached[p].res.body = cached[q].res.body
      /\ result[q].res.body # cached[q].res.body
      /\ store[KeyOf(p)] # None
      /\ store[KeyOf(p)].val.res.body = cached[p].res.body

\* A conditional fetch of p that failed or was rejected: the entry found at
\* lookup was stale or the mode NoCache, and the adapter returned an error
\* or the origin neither 304 nor 200.
FailedConditional(p) ==
    /\ ModeOf(p) \in {"Default", "NoCache"}
    /\ cached[p] # None
    /\ \E i \in RemoteFetches(p) :
         \/ log[p][i][2] = <<>>
         \/ log[p][i][2][1] \notin {200, 304}

\* C35: every call of run invokes the adapter's remote_fetch at most once,
\* in every mode and on every path; a conditional fetch that failed or was
\* rejected ends the call with no further fetch, and no step of a call that
\* has fetched fetches again.
C35_AtMostOneRemoteFetch ==
    /\ [](\A p \in Procs :
            /\ Cardinality(RemoteFetches(p)) <= 1
            /\ Active(p) /\ FailedConditional(p) => Done(p))
    /\ [][\A p \in Procs :
            RemoteFetches(p) # {} /\ call'[p] = call[p] =>
              /\ origin' = origin
              /\ log'[p] # log[p] /\ log'[p] # <<>> =>
                   log'[p][Len(log'[p])][1] # "remote_fetch"]_vars

C35_Witness ==
    \E p \in Procs :
      /\ Active(p) /\ Done(p)
      /\ FailedConditional(p)
      /\ Cardinality(RemoteFetches(p)) = 1

\* The warn-codes the engine adds when it serves: 111 "Revalidation failed"
\* and 112 "Disconnected operation".
ServeTimeWarned(res) == warning_code(res) \in {Some(111), Some(112)}

\* C36: the warnings the engine adds at serve time are never persisted.  No
\* stored entry carries warn-code 111 or 112 (the origin sends neither), and
\* a call that returned a response with one of them has made no put and has
\* left the entry under its key as it found it.
C36_ServeTimeWarningsNotStored ==
    /\ \A k \in Keys : store[k] # None => ~ServeTimeWarned(store[k].val.res)
    /\ \A p \in Procs :
         Active(p) /\ Served(p) /\ ServeTimeWarned(result[p].res) =>
           /\ ~HasOp(p, "put")
           /\ store[KeyOf(p)] = before[p][KeyOf(p)]
           /\ store[KeyOf(p)] # None

C36_Witness ==
    \E p \in Procs :
      /\ Active(p) /\ Served(p)
      /\ warning_code(result[p].res) = Some(111)
      /\ Answered(p, <<>>)
      /\ store[KeyOf(p)] # None
      /\ ~ServeTimeWarned(store[KeyOf(p)].val.res)
      /\ store[KeyOf(p)].val.res.body = result[p].res.body

\* The entry that was stored under the key of p when its call began carries
\* a warning with a 2xx warn-code, and the call has returned that stored
\* response (the bodies of the origin's answers are all different).
ServedStored2xx(p) ==
    /\ Active(p) /\ Served(p)
    /\ before[p][KeyOf(p)] # None
    /\ before[p][KeyOf(p)].val.res.warning # NoWarning
    /\ before[p][KeyOf(p)].val.res.warning[1] \in 200..299
    /\ result[p].res.body = before[p][KeyOf(p)].val.res.body

\* C37: a warning with a 2xx warn-code on a stored response is retained
\* whenever that stored response is served: on every path that returns it
\* (fresh hit, forced-mode hit, failed revalidation, other status, 304) the
\* returned response carries the stored warning value.
C37_Stored2xxWarningRetained ==
    \A p \in Procs :
      ServedStored2xx(p) =>
        result[p].res.warning = before[p][KeyOf(p)].val.res.warning

====
